---- MODULE Spec2Model ----
(***************************************************************************)
(* A model of am43_rc: the BLE device correlator (ble_proxy/ble.py,        *)
(* BLEDevice), the discovery manager / registry (BLEDiscoveryManager) and  *)
(* the AM43 device built on them (am43_rc/service.py).                     *)
(*                                                                         *)
(* The specifications of the module:                                       *)
(*   Spec / FairSpec  one BLEDevice driven by concurrent asyncio tasks     *)
(*   MgrSpec          one BLEDiscoveryManager driven by its callers        *)
(*   ConnSpec         connect, disconnect and is_connected of one device   *)
(*   CodecSpec        the command frames and the reply decoding            *)
(*   StateSpec        AM43Device.read_state                                *)
(*   DiscoverSpec     AM43DeviceManager.discover                           *)
(* The coroutines are cut at their await points: the code between two      *)
(* awaits runs atomically on the event loop and is one action here.        *)
(***************************************************************************)
EXTENDS Integers, Sequences, FiniteSets, TLC

(***************************************************************************)
(* Bounds of the model                                                     *)
(***************************************************************************)
NumTasks == 2
MaxOps == 3
\* BLEDiscoveryManager: largest attempts argument, number of manager calls,
\* number of Device instances built
MaxAttempts == 2
MaxCalls == 3
MaxDevices == 2
\* AM43Device: longest payload of a frame, longest reply of the blind, and
\* how far below 0 and above 100 the positions given to set_position reach
MaxPayload == 2
MaxReplyLen == 9
PosMargin == 3
\* AM43Device: number of read_state calls
MaxReads == 2
\* AM43DeviceManager: number of devices a scan finds
MaxScan == 3

(***************************************************************************)
(* Program constants                                                       *)
(***************************************************************************)
\* asyncio.wait_for(..., timeout=1) in BLEDevice._send_char_command
ReplyTimeout == 1

\* AM43Device.Cmd: the opcodes
MOVE == 10
SET_POSITION == 13
GET_POSITION == 167
GET_BATTERY == 162
GET_LIGHT == 170
LOGIN == 23

\* AM43Device.CMD_PREFIX, NO_DATA, MoveOption and ReplyPrefix
CMD_PREFIX == << 0, 255, 0, 0, 154 >>
NO_DATA == << 1 >>
MOVE_OPEN == << 221 >>
MOVE_CLOSE == << 238 >>
MOVE_STOP == << 204 >>
BATTERY == << 154, 162 >>
LIGHT == << 154, 170 >>
POSITION == << 154, 167 >>

\* the position byte of a blind whose limits are not set (read_position)
UnknownPosition == 255

Tasks == 1 .. NumTasks

\* The commands of AM43Device the tasks issue. Every command goes through
\* __send_command and _send_char_command and differs from the others only in
\* the frame it writes: one movement command and one read command stand for
\* them here
Commands == {"open", "read_position"}

\* The operations a task can invoke on the device
DeviceOps == {"connect", "disconnect"} \cup Commands

IsCommand(o) == o \in Commands

\* self._notification_bytes: None, or the fragments received (each fragment
\* is tagged with the id of the command the device sent it in reply to)
NoBytes == [isNone |-> TRUE, frags |-> << >>]

\* The value a task has before its operation completes
Pending == [kind |-> "pending", data |-> NoBytes]

VARIABLES
  has_connect_attempts,  \* BLEDevice._has_connect_attempts
  linkUp,                \* the transport's session is up (BLEConnection)
  subscribed,            \* the notification handler is registered in this session
  notification_bytes,    \* BLEDevice._notification_bytes
  read_state_event,      \* BLEDevice._read_state_event (asyncio.Event: set or not)
  lock,                  \* BLEDevice._lock: 0 when free, else the holding task
  lockWaiters,           \* BLEDevice._lock: FIFO queue of the tasks waiting
  pc,                    \* per task: the await point it is suspended at
  op,                    \* per task: the operation it runs
  cid,                   \* per task: the id of its current operation
  result,                \* per task: outcome of its last operation
  connAtStart,           \* per task: was the device connected when the body started
  elapsed,               \* time waited so far by the task in wait_for
  nOps,                  \* number of operations invoked so far
  writes,                \* write_gatt_char invocations, in order: command ids
  wire,                  \* frames that reached the physical device, in order
  air                    \* command ids whose reply the device has not yet notified

devVars == << has_connect_attempts, linkUp, subscribed, notification_bytes,
              read_state_event, lock, lockWaiters, pc, op, cid, result,
              connAtStart, elapsed, nOps, writes, wire, air >>

\* BLEDiscoveryManager and the Devices it manages
VARIABLES
  managed_devices,  \* BLEDiscoveryManager._managed_devices: the dict, as the
                    \* sequence of its (address, device) items in insertion order
  devices,          \* the Device instances built so far, by instance number
  nDevices,         \* number of Device instances built so far
  builds,           \* per address: number of build_new_device invocations
  call,             \* per caller: the locals of its manager call
  nCalls            \* number of manager calls made so far

mgrVars == << managed_devices, devices, nDevices, builds, call, nCalls >>

\* Direct calls of single operations, each with what it returned or raised
VARIABLES
  probe,  \* the last call of BLEDevice.is_connected by a task
  codec,  \* the last call of an AM43Device command on given bytes
  am43,   \* AM43Device.__state and the locals of the running read_state
  scan    \* the last call of AM43DeviceManager.discover

auxVars == << probe, codec, am43, scan >>

vars == << devVars, mgrVars, auxVars >>

(***************************************************************************)
(* BLEDevice: helpers                                                      *)
(***************************************************************************)
\* a lock that lets every caller in at once
LockAlwaysFree == TRUE

\* asyncio.Lock.acquire takes the lock at once only when nobody holds it
\* (release hands the lock to the first waiter, so no waiter is queued on a
\* free lock)
LockFree == lock = 0

\* BLEDevice.is_connected: False without asking the transport before the
\* first successful transport connect; otherwise the transport's answer, and
\* False when asking the transport raised
is_connected(thrown) ==
  IF ~has_connect_attempts THEN FALSE
  ELSE IF thrown THEN FALSE
  ELSE linkUp

\* the connection state verify_connected would see
Connected == has_connect_attempts /\ linkUp

\* AM43Device.__send_command calls _send_char_command(char, data) and leaves
\* expect_reply at its default, True, for every command
ExpectReply(o) == TRUE

\* a reply wait without a timeout
NeverDue == FALSE

\* asyncio.wait_for: the timeout of the reply wait has elapsed
TimeoutDue == elapsed >= ReplyTimeout

\* a handler that keeps only the last fragment
Overwritten(buf, c) == [isNone |-> FALSE, frags |-> << c >>]

\* BLEDevice._default_notification_handler: append the data to the buffer
Appended(buf, c) ==
  IF buf.isNone THEN [isNone |-> FALSE, frags |-> << c >>]
  ELSE [isNone |-> FALSE, frags |-> Append(buf.frags, c)]

\* Leaving "async with self._lock": the lock goes to the first waiter, if any,
\* and task t is back at its caller
ReleaseLock(t) ==
  IF lockWaiters = << >>
  THEN /\ lock' = 0
       /\ lockWaiters' = lockWaiters
       /\ pc' = [pc EXCEPT ![t] = "idle"]
  ELSE /\ lock' = Head(lockWaiters)
       /\ lockWaiters' = Tail(lockWaiters)
       /\ pc' = [pc EXCEPT ![t] = "idle", ![Head(lockWaiters)] = "locked"]

\* The operation of task t ends with outcome res (a return or an exception
\* leaving the "async with" block)
Finish(t, res) ==
  /\ result' = [result EXCEPT ![t] = res]
  /\ ReleaseLock(t)

(***************************************************************************)
(* BLEDevice: initial state (BLEDevice.__init__)                           *)
(***************************************************************************)
DevInit ==
  /\ has_connect_attempts = FALSE
  /\ linkUp = FALSE
  /\ subscribed = FALSE
  /\ notification_bytes = NoBytes
  /\ read_state_event = FALSE
  /\ lock = 0
  /\ lockWaiters = << >>
  /\ pc = [t \in Tasks |-> "idle"]
  /\ op = [t \in Tasks |-> "connect"]
  /\ cid = [t \in Tasks |-> 0]
  /\ result = [t \in Tasks |-> Pending]
  /\ connAtStart = [t \in Tasks |-> FALSE]
  /\ elapsed = 0
  /\ nOps = 0
  /\ writes = << >>
  /\ wire = << >>
  /\ air = {}

(***************************************************************************)
(* BLEDevice: the operations, cut at their await points                    *)
(***************************************************************************)
\* A task invokes connect, disconnect or a command: "async with self._lock"
Call(t, o) ==
  /\ pc[t] = "idle"
  /\ nOps < MaxOps
  /\ nOps' = nOps + 1
  /\ op' = [op EXCEPT ![t] = o]
  /\ cid' = [cid EXCEPT ![t] = nOps + 1]
  /\ result' = [result EXCEPT ![t] = Pending]
  /\ connAtStart' = [connAtStart EXCEPT ![t] = FALSE]
  /\ IF LockFree
     THEN /\ lock' = t
          /\ lockWaiters' = lockWaiters
          /\ pc' = [pc EXCEPT ![t] = "locked"]
     ELSE /\ lock' = lock
          /\ lockWaiters' = Append(lockWaiters, t)
          /\ pc' = [pc EXCEPT ![t] = "lockwait"]
  /\ UNCHANGED << has_connect_attempts, linkUp, subscribed, notification_bytes,
                  read_state_event, elapsed, writes, wire, air >>
  /\ UNCHANGED << mgrVars, auxVars >>

\* BLEDevice.connect, inside the lock: "if not await self.is_connected()",
\* then the transport connect is awaited
ConnectBody(t) ==
  /\ pc[t] = "locked" /\ op[t] = "connect"
  /\ connAtStart' = [connAtStart EXCEPT ![t] = Connected]
  /\ \E thrown \in BOOLEAN :
       IF is_connected(thrown)
       THEN Finish(t, [kind |-> "ok", data |-> NoBytes])
       ELSE /\ pc' = [pc EXCEPT ![t] = "connecting"]
            /\ UNCHANGED << result, lock, lockWaiters >>
  /\ UNCHANGED << has_connect_attempts, linkUp, subscribed, notification_bytes,
                  read_state_event, op, cid, elapsed, nOps, writes, wire, air >>
  /\ UNCHANGED << mgrVars, auxVars >>

\* the awaited self._connection.connect returns or raises
ConnectFinish(t) ==
  /\ pc[t] = "connecting"
  /\ \E ok \in BOOLEAN :
       IF ok
       THEN /\ linkUp' = TRUE
            /\ has_connect_attempts' = TRUE
            /\ pc' = [pc EXCEPT ![t] = "setup"]
            /\ UNCHANGED << result, lock, lockWaiters >>
       ELSE /\ Finish(t, [kind |-> "TransportError", data |-> NoBytes])
            /\ UNCHANGED << linkUp, has_connect_attempts >>
  /\ UNCHANGED << subscribed, notification_bytes, read_state_event, op, cid,
                  connAtStart, elapsed, nOps, writes, wire, air >>
  /\ UNCHANGED << mgrVars, auxVars >>

\* the awaited _on_connection_established (AM43Device: subscribe for the
\* notifications of the control characteristic) returns or raises
SetupFinish(t) ==
  /\ pc[t] = "setup"
  /\ \E ok \in BOOLEAN :
       IF ok /\ linkUp
       THEN /\ subscribed' = TRUE
            /\ Finish(t, [kind |-> "ok", data |-> NoBytes])
       ELSE /\ subscribed' = subscribed
            /\ Finish(t, [kind |-> "TransportError", data |-> NoBytes])
  /\ UNCHANGED << has_connect_attempts, linkUp, notification_bytes,
                  read_state_event, op, cid, connAtStart, elapsed, nOps,
                  writes, wire, air >>
  /\ UNCHANGED << mgrVars, auxVars >>

\* BLEDevice.disconnect, inside the lock
DisconnectBody(t) ==
  /\ pc[t] = "locked" /\ op[t] = "disconnect"
  /\ connAtStart' = [connAtStart EXCEPT ![t] = Connected]
  /\ \E thrown \in BOOLEAN :
       IF has_connect_attempts /\ is_connected(thrown)
       THEN /\ pc' = [pc EXCEPT ![t] = "disconnecting"]
            /\ UNCHANGED << result, lock, lockWaiters >>
       ELSE Finish(t, [kind |-> "ok", data |-> NoBytes])
  /\ UNCHANGED << has_connect_attempts, linkUp, subscribed, notification_bytes,
                  read_state_event, op, cid, elapsed, nOps, writes, wire, air >>
  /\ UNCHANGED << mgrVars, auxVars >>

\* the awaited self._connection.disconnect returns or raises
DisconnectFinish(t) ==
  /\ pc[t] = "disconnecting"
  /\ \E ok \in BOOLEAN :
       IF ok
       THEN /\ linkUp' = FALSE
            /\ subscribed' = FALSE
            /\ air' = {}
            /\ Finish(t, [kind |-> "ok", data |-> NoBytes])
       ELSE /\ UNCHANGED << linkUp, subscribed, air >>
            /\ Finish(t, [kind |-> "TransportError", data |-> NoBytes])
  /\ UNCHANGED << has_connect_attempts, notification_bytes, read_state_event,
                  op, cid, connAtStart, elapsed, nOps, writes, wire >>
  /\ UNCHANGED << mgrVars, auxVars >>

\* BLEDevice._send_char_command, inside the lock: the buffer is cleared and
\* write_gatt_char is called and awaited
SendBody(t) ==
  /\ pc[t] = "locked" /\ IsCommand(op[t])
  /\ connAtStart' = [connAtStart EXCEPT ![t] = Connected]
  /\ notification_bytes' = NoBytes
  /\ writes' = Append(writes, cid[t])
  /\ pc' = [pc EXCEPT ![t] = "writing"]
  /\ UNCHANGED << has_connect_attempts, linkUp, subscribed, read_state_event,
                  lock, lockWaiters, op, cid, result, elapsed, nOps, wire, air >>
  /\ UNCHANGED << mgrVars, auxVars >>

\* the transport performs the write: the frame reaches the device, which
\* will answer with a notification, or the write raises
WriteFrame(t) ==
  /\ pc[t] = "writing"
  /\ \E ok \in BOOLEAN :
       IF ok /\ linkUp
       THEN /\ wire' = Append(wire, cid[t])
            /\ air' = air \cup {cid[t]}
            /\ pc' = [pc EXCEPT ![t] = "written"]
            /\ UNCHANGED << result, lock, lockWaiters >>
       ELSE /\ UNCHANGED << wire, air >>
            /\ Finish(t, [kind |-> "TransportError", data |-> NoBytes])
  /\ UNCHANGED << has_connect_attempts, linkUp, subscribed, notification_bytes,
                  read_state_event, op, cid, connAtStart, elapsed, nOps, writes >>
  /\ UNCHANGED << mgrVars, auxVars >>

\* the awaited write_gatt_char returns: "if expect_reply:" the event is
\* cleared and the wait (asyncio.wait_for, timeout=1) starts
WriteReturn(t) ==
  /\ pc[t] = "written"
  /\ IF ExpectReply(op[t])
     THEN /\ read_state_event' = FALSE
          /\ elapsed' = 0
          /\ pc' = [pc EXCEPT ![t] = "waiting"]
          /\ UNCHANGED << result, lock, lockWaiters >>
     ELSE /\ UNCHANGED << read_state_event, elapsed >>
          /\ Finish(t, [kind |-> "ok", data |-> NoBytes])
  /\ UNCHANGED << has_connect_attempts, linkUp, subscribed, notification_bytes,
                  op, cid, connAtStart, nOps, writes, wire, air >>
  /\ UNCHANGED << mgrVars, auxVars >>

\* The transport calls _default_notification_handler with the device's reply
\* to command c: the data is appended to the buffer and the event is set
Notify(c) ==
  /\ c \in air
  /\ subscribed
  /\ air' = air \ {c}
  /\ notification_bytes' = Appended(notification_bytes, c)
  /\ read_state_event' = TRUE
  /\ UNCHANGED << has_connect_attempts, linkUp, subscribed, lock, lockWaiters,
                  pc, op, cid, result, connAtStart, elapsed, nOps, writes, wire >>
  /\ UNCHANGED << mgrVars, auxVars >>

\* time passes while the task waits for the event
Tick(t) ==
  /\ pc[t] = "waiting"
  /\ ~read_state_event
  /\ ~TimeoutDue
  /\ elapsed' = elapsed + 1
  /\ UNCHANGED << has_connect_attempts, linkUp, subscribed, notification_bytes,
                  read_state_event, lock, lockWaiters, pc, op, cid, result,
                  connAtStart, nOps, writes, wire, air >>
  /\ UNCHANGED << mgrVars, auxVars >>

\* asyncio.wait_for cancels the wait and raises TimeoutError, which leaves
\* the "async with" block
Timeout(t) ==
  /\ pc[t] = "waiting"
  /\ ~read_state_event
  /\ TimeoutDue
  /\ elapsed' = 0
  /\ Finish(t, [kind |-> "Timeout", data |-> NoBytes])
  /\ UNCHANGED << has_connect_attempts, linkUp, subscribed, notification_bytes,
                  read_state_event, op, cid, connAtStart, nOps, writes, wire, air >>
  /\ UNCHANGED << mgrVars, auxVars >>

\* the event is set: the wait ends and "return self._notification_bytes"
Resume(t) ==
  /\ pc[t] = "waiting"
  /\ read_state_event
  /\ elapsed' = 0
  /\ Finish(t, [kind |-> "ok", data |-> notification_bytes])
  /\ UNCHANGED << has_connect_attempts, linkUp, subscribed, notification_bytes,
                  read_state_event, op, cid, connAtStart, nOps, writes, wire, air >>
  /\ UNCHANGED << mgrVars, auxVars >>

\* The transport session drops silently; replies still on the air are lost
LinkDrop ==
  /\ linkUp
  /\ linkUp' = FALSE
  /\ subscribed' = FALSE
  /\ air' = {}
  /\ UNCHANGED << has_connect_attempts, notification_bytes, read_state_event,
                  lock, lockWaiters, pc, op, cid, result, connAtStart, elapsed,
                  nOps, writes, wire >>
  /\ UNCHANGED << mgrVars, auxVars >>

DevNext ==
  \/ \E t \in Tasks, o \in DeviceOps : Call(t, o)
  \/ \E t \in Tasks : ConnectBody(t)
  \/ \E t \in Tasks : ConnectFinish(t)
  \/ \E t \in Tasks : SetupFinish(t)
  \/ \E t \in Tasks : DisconnectBody(t)
  \/ \E t \in Tasks : DisconnectFinish(t)
  \/ \E t \in Tasks : SendBody(t)
  \/ \E t \in Tasks : WriteFrame(t)
  \/ \E t \in Tasks : WriteReturn(t)
  \/ \E c \in 1 .. MaxOps : Notify(c)
  \/ \E t \in Tasks : Tick(t)
  \/ \E t \in Tasks : Timeout(t)
  \/ \E t \in Tasks : Resume(t)
  \/ LinkDrop

(***************************************************************************)
(* BLEDiscoveryManager: helpers                                            *)
(***************************************************************************)
Callers == {1, 2}
Addrs == {"a1", "a2"}
Attempts == 1 .. MaxAttempts
DeviceIds == 1 .. MaxDevices

\* dict.get(address, None): the device registered for address a, 0 for None
Get(reg, a) ==
  IF \E i \in 1 .. Len(reg) : reg[i].addr = a
  THEN (CHOOSE e \in {reg[i] : i \in 1 .. Len(reg)} : e.addr = a).dev
  ELSE 0

\* self._managed_devices[address] = device
Put(reg, a, d) ==
  IF \E i \in 1 .. Len(reg) : reg[i].addr = a
  THEN [i \in 1 .. Len(reg) |->
          IF reg[i].addr = a THEN [addr |-> a, dev |-> d] ELSE reg[i]]
  ELSE Append(reg, [addr |-> a, dev |-> d])

\* del self._managed_devices[addr] (the caller checks the key is there)
Del(reg, a) == SelectSeq(reg, LAMBDA e : e.addr # a)

HasKey(reg, a) == \E i \in 1 .. Len(reg) : reg[i].addr = a

\* a connect that builds a Device without looking at the registry
AlwaysBuild(d) == TRUE

\* "if device is None": connect builds a Device
NeedsBuild(d) == d = 0

\* a retry loop that stops one attempt early
LoopOffByOne(left) == left > 1

\* "while attempts_left > 0"
LoopContinues(left) == left > 0

\* a connect that re-raises the error of its last attempt, whatever attempts is
RaisesOnLastAttempt(c) == call[c].attempts_left = 1

\* "if attempts == 1: raise e"
RaisesUnderlying(c) == call[c].attempts = 1

\* a disconnect_all whose loop ends at the first failure
StopAfterFailure(i, n) == n + 1

\* disconnect_all, "except Exception": the failure is logged and the for loop
\* goes on with the next item (i of n)
NextAfterFailure(i, n) == i + 1

\* BLEDevice.is_connected of Device instance d
DevIsConnected(d, thrown) ==
  IF ~devices[d].has_connect_attempts THEN FALSE
  ELSE IF thrown THEN FALSE
  ELSE devices[d].linkUp

NoDevice ==
  [address |-> "none", has_connect_attempts |-> FALSE, linkUp |-> FALSE,
   subscribed |-> FALSE, lock |-> 0]

\* AM43Device(BleakBLEConnection(target, iface)): BLEDevice.__init__
NewDevice(a) ==
  [address |-> a, has_connect_attempts |-> FALSE, linkUp |-> FALSE,
   subscribed |-> FALSE, lock |-> 0]

NoResult == [kind |-> "pending", address |-> "none", attempts |-> 0, device |-> 0]

IdleCall ==
  [op |-> "none", pc |-> "idle", target |-> "a1", attempts |-> 1,
   attempts_left |-> 0, device |-> 0, found |-> 0, built |-> FALSE,
   tries |-> 0, tconnects |-> 0, tsucc |-> 0, sleeps |-> 0,
   snapshot |-> << >>, idx |-> 0, attempted |-> {}, failed |-> {},
   result |-> NoResult]

MgrInit ==
  /\ managed_devices = << >>
  /\ devices = [d \in DeviceIds |-> NoDevice]
  /\ nDevices = 0
  /\ builds = [a \in Addrs |-> 0]
  /\ call = [c \in Callers |-> IdleCall]
  /\ nCalls = 0

(***************************************************************************)
(* BLEDiscoveryManager.connect                                             *)
(***************************************************************************)
\* connect(target, attempts=n) up to "await self.build_new_device(target)":
\* the registry is looked up; a Device found is used, otherwise one is built.
\* build_new_device is an abstract coroutine: it may suspend (the Device is
\* registered when it returns, in BuildReturn) or run through, as
\* AM43DeviceManager.build_new_device does
MgrConnect(c, a, n) ==
  /\ call[c].pc = "idle"
  /\ nCalls < MaxCalls
  /\ nCalls' = nCalls + 1
  /\ LET d == Get(managed_devices, a)
         started == [IdleCall EXCEPT !.op = "connect", !.target = a,
                       !.attempts = n, !.attempts_left = n, !.found = d]
     IN IF NeedsBuild(d)
        THEN /\ nDevices < MaxDevices
             /\ builds' = [builds EXCEPT ![a] = @ + 1]
             /\ \E suspends \in BOOLEAN :
                  IF suspends
                  THEN /\ call' = [call EXCEPT ![c] =
                                     [started EXCEPT !.pc = "building", !.built = TRUE]]
                       /\ UNCHANGED << managed_devices, devices, nDevices >>
                  ELSE /\ nDevices' = nDevices + 1
                       /\ devices' = [devices EXCEPT ![nDevices + 1] = NewDevice(a)]
                       /\ managed_devices' = Put(managed_devices, a, nDevices + 1)
                       /\ call' = [call EXCEPT ![c] =
                                     [started EXCEPT !.pc = "attempt", !.built = TRUE,
                                                     !.device = nDevices + 1]]
        ELSE /\ call' = [call EXCEPT ![c] =
                           [started EXCEPT !.pc = "attempt", !.device = d]]
             /\ UNCHANGED << managed_devices, devices, nDevices, builds >>
  /\ UNCHANGED << devVars, auxVars >>

\* the awaited build_new_device returns: the new Device is registered
BuildReturn(c) ==
  /\ call[c].pc = "building"
  /\ nDevices < MaxDevices
  /\ nDevices' = nDevices + 1
  /\ devices' = [devices EXCEPT ![nDevices + 1] = NewDevice(call[c].target)]
  /\ managed_devices' = Put(managed_devices, call[c].target, nDevices + 1)
  /\ call' = [call EXCEPT ![c].pc = "attempt", ![c].device = nDevices + 1]
  /\ UNCHANGED << builds, nCalls >>
  /\ UNCHANGED << devVars, auxVars >>

\* "except Exception as e": the failed attempt is re-raised when attempts is
\* 1, otherwise attempts_left is decremented and the backoff sleep starts
AfterFailedAttempt(c, kind) ==
  IF RaisesUnderlying(c)
  THEN [call[c] EXCEPT !.pc = "idle",
          !.result = [kind |-> kind, address |-> "none", attempts |-> 0, device |-> 0]]
  ELSE [call[c] EXCEPT !.pc = "sleeping", !.attempts_left = @ - 1,
                       !.sleeps = @ + 1]

\* The top of the while loop. With attempts left, device.connect(timeout) is
\* called: it takes the device's lock and asks is_connected; a connected
\* device is returned at once, otherwise the transport connect is awaited.
\* With none left the RuntimeError after the loop is raised
AttemptStart(c) ==
  /\ call[c].pc = "attempt"
  /\ LET d == call[c].device IN
     IF LoopContinues(call[c].attempts_left)
     THEN /\ devices[d].lock = 0
          /\ \E thrown \in BOOLEAN :
               IF DevIsConnected(d, thrown)
               THEN /\ call' = [call EXCEPT ![c].pc = "idle", ![c].tries = @ + 1,
                                  ![c].result = [kind |-> "ok", address |-> "none",
                                                 attempts |-> 0, device |-> d]]
                    /\ UNCHANGED devices
               ELSE /\ call' = [call EXCEPT ![c].pc = "connecting",
                                  ![c].tries = @ + 1, ![c].tconnects = @ + 1]
                    /\ devices' = [devices EXCEPT ![d].lock = c]
     ELSE /\ call' = [call EXCEPT ![c].pc = "idle",
                        ![c].result = [kind |-> "ConnectionFailed",
                                       address |-> call[c].target,
                                       attempts |-> call[c].attempts, device |-> 0]]
          /\ UNCHANGED devices
  /\ UNCHANGED << managed_devices, nDevices, builds, nCalls >>
  /\ UNCHANGED << devVars, auxVars >>

\* the awaited transport connect returns or raises
TransportConnectReturn(c) ==
  /\ call[c].pc = "connecting"
  /\ LET d == call[c].device IN
     \E ok \in BOOLEAN :
       IF ok
       THEN /\ devices' = [devices EXCEPT ![d].linkUp = TRUE,
                                          ![d].has_connect_attempts = TRUE]
            /\ call' = [call EXCEPT ![c].pc = "setup", ![c].tsucc = @ + 1]
       ELSE /\ devices' = [devices EXCEPT ![d].lock = 0]
            /\ call' = [call EXCEPT ![c] = AfterFailedAttempt(c, "TransportError")]
  /\ UNCHANGED << managed_devices, nDevices, builds, nCalls >>
  /\ UNCHANGED << devVars, auxVars >>

\* the awaited _on_connection_established returns (device.connect returns and
\* connect returns the device) or raises
SetupReturn(c) ==
  /\ call[c].pc = "setup"
  /\ LET d == call[c].device IN
     \E ok \in BOOLEAN :
       IF ok
       THEN /\ devices' = [devices EXCEPT ![d].lock = 0, ![d].subscribed = TRUE]
            /\ call' = [call EXCEPT ![c].pc = "idle",
                          ![c].result = [kind |-> "ok", address |-> "none",
                                         attempts |-> 0, device |-> d]]
       ELSE /\ devices' = [devices EXCEPT ![d].lock = 0]
            /\ call' = [call EXCEPT ![c] = AfterFailedAttempt(c, "SetupError")]
  /\ UNCHANGED << managed_devices, nDevices, builds, nCalls >>
  /\ UNCHANGED << devVars, auxVars >>

\* "await asyncio.sleep(0.5)" returns: back to the top of the loop
Wake(c) ==
  /\ call[c].pc = "sleeping"
  /\ call' = [call EXCEPT ![c].pc = "attempt"]
  /\ UNCHANGED << managed_devices, devices, nDevices, builds, nCalls >>
  /\ UNCHANGED << devVars, auxVars >>

(***************************************************************************)
(* BLEDiscoveryManager.disconnect_all                                      *)
(***************************************************************************)
\* "for addr, dev in list(self._managed_devices.items())": the items are
\* copied
DisconnectAll(c) ==
  /\ call[c].pc = "idle"
  /\ nCalls < MaxCalls
  /\ nCalls' = nCalls + 1
  /\ call' = [call EXCEPT ![c] =
                [IdleCall EXCEPT !.op = "disconnect_all", !.snapshot = managed_devices,
                   !.idx = 1,
                   !.pc = IF managed_devices = << >> THEN "idle" ELSE "da_loop",
                   !.result = IF managed_devices = << >>
                              THEN [NoResult EXCEPT !.kind = "ok"] ELSE NoResult]]
  /\ UNCHANGED << managed_devices, devices, nDevices, builds >>
  /\ UNCHANGED << devVars, auxVars >>

\* the loop moves from item i to item j: past the last item disconnect_all
\* returns
Advance(rec, j) ==
  IF j > Len(rec.snapshot)
  THEN [rec EXCEPT !.idx = j, !.pc = "idle", !.result = [NoResult EXCEPT !.kind = "ok"]]
  ELSE [rec EXCEPT !.idx = j, !.pc = "da_loop"]

\* One item: dev.disconnect() takes the device's lock; a connected device's
\* transport disconnect is awaited, otherwise disconnect returns and the
\* item is deleted from the registry ("del" of a key that is gone raises
\* KeyError, which "except Exception" suppresses like any other failure)
DisconnectItem(c) ==
  /\ call[c].pc = "da_loop"
  /\ LET i == call[c].idx
         a == call[c].snapshot[i].addr
         d == call[c].snapshot[i].dev
         tried == [call[c] EXCEPT !.attempted = @ \cup {d}]
     IN /\ devices[d].lock = 0
        /\ \E thrown \in BOOLEAN :
             IF devices[d].has_connect_attempts /\ DevIsConnected(d, thrown)
             THEN /\ devices' = [devices EXCEPT ![d].lock = c]
                  /\ call' = [call EXCEPT ![c] = [tried EXCEPT !.pc = "da_disconnecting"]]
                  /\ UNCHANGED managed_devices
             ELSE /\ UNCHANGED devices
                  /\ IF HasKey(managed_devices, a)
                     THEN /\ managed_devices' = Del(managed_devices, a)
                          /\ call' = [call EXCEPT ![c] = Advance(tried, i + 1)]
                     ELSE /\ UNCHANGED managed_devices
                          /\ call' = [call EXCEPT ![c] =
                                        Advance(tried, NextAfterFailure(i, Len(tried.snapshot)))]
  /\ UNCHANGED << nDevices, builds, nCalls >>
  /\ UNCHANGED << devVars, auxVars >>

\* the awaited transport disconnect returns (the item is deleted) or raises
\* (the failure is suppressed and the item stays)
DisconnectReturn(c) ==
  /\ call[c].pc = "da_disconnecting"
  /\ LET i == call[c].idx
         a == call[c].snapshot[i].addr
         d == call[c].snapshot[i].dev
         n == Len(call[c].snapshot)
     IN \E ok \in BOOLEAN :
          IF ok
          THEN /\ devices' = [devices EXCEPT ![d].lock = 0, ![d].linkUp = FALSE,
                                             ![d].subscribed = FALSE]
               /\ IF HasKey(managed_devices, a)
                  THEN /\ managed_devices' = Del(managed_devices, a)
                       /\ call' = [call EXCEPT ![c] = Advance(call[c], i + 1)]
                  ELSE /\ UNCHANGED managed_devices
                       /\ call' = [call EXCEPT ![c] =
                                     Advance(call[c], NextAfterFailure(i, n))]
          ELSE /\ devices' = [devices EXCEPT ![d].lock = 0]
               /\ UNCHANGED managed_devices
               /\ call' = [call EXCEPT ![c] =
                             Advance([call[c] EXCEPT !.failed = @ \cup {d}],
                                     NextAfterFailure(i, n))]
  /\ UNCHANGED << nDevices, builds, nCalls >>
  /\ UNCHANGED << devVars, auxVars >>

\* A caller that awaits each manager call before it makes the next one, as
\* main() of test_entrypoint does: a call starts when no other call is running
NoCallRunning == \A c \in Callers : call[c].pc = "idle"

SeqConnect(c, a, n) == NoCallRunning /\ MgrConnect(c, a, n)

SeqDisconnectAll(c) == NoCallRunning /\ DisconnectAll(c)

MgrNext ==
  \/ \E c \in Callers, a \in Addrs, n \in Attempts : SeqConnect(c, a, n)
  \/ \E c \in Callers : BuildReturn(c)
  \/ \E c \in Callers : AttemptStart(c)
  \/ \E c \in Callers : TransportConnectReturn(c)
  \/ \E c \in Callers : SetupReturn(c)
  \/ \E c \in Callers : Wake(c)
  \/ \E c \in Callers : SeqDisconnectAll(c)
  \/ \E c \in Callers : DisconnectItem(c)
  \/ \E c \in Callers : DisconnectReturn(c)

\* Callers that overlap: a call may start while another caller's call is
\* suspended at an await
MgrConcNext ==
  \/ \E c \in Callers, a \in Addrs, n \in Attempts : MgrConnect(c, a, n)
  \/ \E c \in Callers : BuildReturn(c)
  \/ \E c \in Callers : AttemptStart(c)
  \/ \E c \in Callers : TransportConnectReturn(c)
  \/ \E c \in Callers : SetupReturn(c)
  \/ \E c \in Callers : Wake(c)
  \/ \E c \in Callers : DisconnectAll(c)
  \/ \E c \in Callers : DisconnectItem(c)
  \/ \E c \in Callers : DisconnectReturn(c)

(***************************************************************************)
(* BLEDevice.is_connected called by a task                                 *)
(***************************************************************************)
\* self._connection.is_connected(): the transport answers with the state of
\* its session, or raises
TransportCheck(thrown) == [raised |-> thrown, value |-> ~thrown /\ linkUp]

\* an is_connected that lets the transport's exception through
NoCatch(r) == r

\* "try: return await self._connection.is_connected()
\*  except Exception: ... return False"
CatchAll(r) == [raised |-> FALSE, value |-> ~r.raised /\ r.value]

\* BLEDevice.is_connected as its caller sees it: whether the transport was
\* asked, whether the call raised, and the value returned
IsConnectedOutcome(thrown) ==
  IF ~has_connect_attempts
  THEN [asked |-> FALSE, raised |-> FALSE, value |-> FALSE]
  ELSE [asked |-> TRUE,
        raised |-> CatchAll(TransportCheck(thrown)).raised,
        value |-> CatchAll(TransportCheck(thrown)).value]

\* before the first call of is_connected
ProbeInit ==
  probe = [calls |-> 0, had |-> FALSE, up |-> FALSE, asked |-> FALSE,
           threw |-> FALSE, raised |-> FALSE, answer |-> FALSE,
           before |-> FALSE]

\* A task awaits device.is_connected(), as main() of test_entrypoint does
\* after connect. is_connected takes no lock: it runs whatever the other
\* tasks are suspended at
IsConnectedCall(t) ==
  /\ pc[t] = "idle"
  /\ nOps < MaxOps
  /\ nOps' = nOps + 1
  /\ \E thrown \in BOOLEAN :
       probe' = [calls |-> probe.calls + 1,
                 had |-> has_connect_attempts,
                 up |-> linkUp,
                 asked |-> IsConnectedOutcome(thrown).asked,
                 threw |-> IsConnectedOutcome(thrown).asked /\ thrown,
                 raised |-> IsConnectedOutcome(thrown).raised,
                 answer |-> IsConnectedOutcome(thrown).value,
                 before |-> probe.answer]
  /\ UNCHANGED << has_connect_attempts, linkUp, subscribed, notification_bytes,
                  read_state_event, lock, lockWaiters, pc, op, cid, result,
                  connAtStart, elapsed, writes, wire, air >>
  /\ UNCHANGED << mgrVars, codec, am43, scan >>

\* A task invokes connect or disconnect
ConnCall(t, o) == o \in {"connect", "disconnect"} /\ Call(t, o)

ConnNext ==
  \/ \E t \in Tasks, o \in DeviceOps : ConnCall(t, o)
  \/ \E t \in Tasks : ConnectBody(t)
  \/ \E t \in Tasks : ConnectFinish(t)
  \/ \E t \in Tasks : SetupFinish(t)
  \/ \E t \in Tasks : DisconnectBody(t)
  \/ \E t \in Tasks : DisconnectFinish(t)
  \/ \E t \in Tasks : IsConnectedCall(t)
  \/ LinkDrop

(***************************************************************************)
(* AM43Device: the command frames                                          *)
(***************************************************************************)
Byte == 0 .. 255

\* Python's data[i] and data[:n] on a bytearray (indices from 0)
At(data, i) == data[i + 1]

Slice(data, n) == SubSeq(data, 1, IF n < Len(data) THEN n ELSE Len(data))

\* Python's a ^ b on two bytes: bit k of the result is set when bit k is set
\* in exactly one of a and b
XorBit(a, b, k) == (((a \div (2 ^ k)) % 2) + ((b \div (2 ^ k)) % 2)) % 2

Xor(a, b) ==
  XorBit(a, b, 0) + 2 * XorBit(a, b, 1) + 4 * XorBit(a, b, 2)
    + 8 * XorBit(a, b, 3) + 16 * XorBit(a, b, 4) + 32 * XorBit(a, b, 5)
    + 64 * XorBit(a, b, 6) + 128 * XorBit(a, b, 7)

\* "crc = 0; for x in blob: crc = crc ^ x": the loop from index i (from 1)
RECURSIVE CrcLoop(_, _, _)
CrcLoop(blob, i, crc) ==
  IF i > Len(blob) THEN crc
  ELSE CrcLoop(blob, i + 1, Xor(crc, blob[i]))

\* a checksum that leaves out the final "^ 0xFF"
calc_crc_plain(blob) == CrcLoop(blob, 1, 0)

\* AM43Device.__calc_crc
calc_crc(blob) == Xor(CrcLoop(blob, 1, 0), 255)

\* AM43Device.__send_command: the bytearray handed to _send_char_command
BuildFrame(command, params) ==
  LET data1 == Append(CMD_PREFIX, command)
      data2 == Append(data1, Len(params))
      data3 == data2 \o params
  IN Append(data3, calc_crc(data3))

\* The payload bytes the frames are built from here: the payloads of the
\* commands, the ends of the position range and of the byte range
PayloadBytes == {0, 1, 100, 204, 221, 238, 255}

RECURSIVE SeqsUpTo(_, _)
SeqsUpTo(S, n) ==
  IF n = 0 THEN {<< >>}
  ELSE LET shorter == SeqsUpTo(S, n - 1)
       IN shorter \cup {Append(q, x) : q \in {r \in shorter : Len(r) = n - 1}, x \in S}

Payloads == SeqsUpTo(PayloadBytes, MaxPayload)

Opcodes == {MOVE, SET_POSITION, GET_POSITION, GET_BATTERY, GET_LIGHT, LOGIN}

\* What a command returned or raised
NoOutcome ==
  [kind |-> "none", isNone |-> TRUE, value |-> 0,
   received |-> << >>, expected |-> << >>, stage |-> "none"]

Returned(v) == [NoOutcome EXCEPT !.kind = "ok", !.isNone = FALSE, !.value = v]

ReturnedNone == [NoOutcome EXCEPT !.kind = "ok"]

CodecInit ==
  codec = [op |-> "none", opcode |-> 0, payload |-> << >>, position |-> 0,
           frame |-> << >>, written |-> << >>, reply |-> << >>,
           outcome |-> NoOutcome]

\* Each behaviour makes one call on one input.
\* __send_command(command, params), on every opcode and payload: the frame
\* is built and handed to _send_char_command, which writes it to the control
\* characteristic
SendCommand ==
  /\ codec.op = "none"
  /\ \E command \in Opcodes, params \in Payloads :
       codec' = [op |-> "send", opcode |-> command, payload |-> params,
                 position |-> 0,
                 frame |-> BuildFrame(command, params),
                 written |-> << BuildFrame(command, params) >>,
                 reply |-> << >>,
                 outcome |-> ReturnedNone]
  /\ UNCHANGED << devVars, mgrVars, probe, am43, scan >>

(***************************************************************************)
(* AM43Device: the read commands and set_position                          *)
(***************************************************************************)
ReadCommands == {"read_battery_status", "read_light_status", "read_position"}

\* the opcode a read command sends, the prefix it expects in the reply and
\* the index (from 0) of the reply byte it returns
ReadOpcode(cmd) ==
  CASE cmd = "read_battery_status" -> GET_BATTERY
    [] cmd = "read_light_status" -> GET_LIGHT
    [] cmd = "read_position" -> GET_POSITION

ReadPrefix(cmd) ==
  CASE cmd = "read_battery_status" -> BATTERY
    [] cmd = "read_light_status" -> LIGHT
    [] cmd = "read_position" -> POSITION

ReadIndex(cmd) ==
  CASE cmd = "read_battery_status" -> 7
    [] cmd = "read_light_status" -> 4
    [] cmd = "read_position" -> 5

\* the frames __send_command builds for the three read commands
BATTERY_REQUEST == BuildFrame(GET_BATTERY, NO_DATA)
LIGHT_REQUEST == BuildFrame(GET_LIGHT, NO_DATA)
POSITION_REQUEST == BuildFrame(GET_POSITION, NO_DATA)

ReadRequest(cmd) ==
  CASE cmd = "read_battery_status" -> BATTERY_REQUEST
    [] cmd = "read_light_status" -> LIGHT_REQUEST
    [] cmd = "read_position" -> POSITION_REQUEST

\* a check that accepts every reply
AnyPrefix(expected_prefix, blob) == TRUE

\* __verify_reply_identifier: "expected_prefix == blob[: len(expected_prefix)]"
PrefixMatches(expected_prefix, blob) ==
  expected_prefix = Slice(blob, Len(expected_prefix))

\* a position returned as the byte read
LiteralPosition(pos) == Returned(pos)

\* read_position: "return pos if pos != 255 else None"
PositionOrNone(pos) == IF pos # UnknownPosition THEN Returned(pos) ELSE ReturnedNone

\* read_battery_status, read_light_status and read_position on the reply that
\* __send_command returned: the prefix is verified (ValueError carrying the
\* reply and the expected prefix), then the byte is indexed (IndexError when
\* the reply is too short)
Decode(cmd, data) ==
  IF ~PrefixMatches(ReadPrefix(cmd), data)
  THEN [NoOutcome EXCEPT !.kind = "ValueError", !.received = data,
                         !.expected = ReadPrefix(cmd), !.stage = "prefix"]
  ELSE IF ReadIndex(cmd) >= Len(data)
  THEN [NoOutcome EXCEPT !.kind = "IndexError", !.stage = "index"]
  ELSE IF cmd = "read_position"
  THEN PositionOrNone(At(data, ReadIndex(cmd)))
  ELSE Returned(At(data, ReadIndex(cmd)))

\* The replies handed to the read commands: the prefix of one of the three
\* replies or another one, every length up to MaxReplyLen, and behind the
\* prefix bytes that differ from index to index and run through every value
ReplyPrefixes == {BATTERY, LIGHT, POSITION, << 154, 0 >>, << 0, 167 >>}

MkReply(p, n, v) == [i \in 1 .. n |-> IF i <= 2 THEN p[i] ELSE (v + i) % 256]

Replies == {MkReply(p, n, v) : p \in ReplyPrefixes, n \in 0 .. MaxReplyLen, v \in Byte}

\* A read command: its request frame is written and the blind's reply, as
\* _send_char_command returned it, is decoded
ReadCommand ==
  /\ codec.op = "none"
  /\ \E cmd \in ReadCommands, data \in Replies :
       codec' = [op |-> cmd, opcode |-> ReadOpcode(cmd), payload |-> NO_DATA,
                 position |-> 0,
                 frame |-> ReadRequest(cmd),
                 written |-> << ReadRequest(cmd) >>,
                 reply |-> data,
                 outcome |-> Decode(cmd, data)]
  /\ UNCHANGED << devVars, mgrVars, probe, am43, scan >>

\* a set_position that checks nothing
NeverOutOfRange(position) == FALSE

\* set_position: "if 0 < position > 100", Python's chained comparison
OutOfRange(position) == 0 < position /\ position > 100

\* Python's bytearray([x]) raises ValueError unless 0 <= x < 256
FitsByte(x) == 0 <= x /\ x < 256

\* The positions given to set_position: the range 0..100, a margin on both
\* sides of it and the ends of the byte range
Positions ==
  ((0 - PosMargin) .. (100 + PosMargin)) \cup {0 - 256, 0 - 128, 127, 128, 255, 256}

\* set_position(position): the range check, then the argument
\* bytearray([position]) is evaluated, then __send_command builds and writes
\* the frame
SetPosition ==
  /\ codec.op = "none"
  /\ \E position \in Positions :
       codec' =
         IF OutOfRange(position)
         THEN [codec EXCEPT !.op = "set_position", !.position = position,
                 !.outcome = [NoOutcome EXCEPT !.kind = "ValueError",
                                               !.stage = "range"]]
         ELSE IF ~FitsByte(position)
         THEN [codec EXCEPT !.op = "set_position", !.position = position,
                 !.outcome = [NoOutcome EXCEPT !.kind = "ValueError",
                                               !.stage = "bytearray"]]
         ELSE [op |-> "set_position", opcode |-> SET_POSITION,
               payload |-> << position >>, position |-> position,
               frame |-> BuildFrame(SET_POSITION, << position >>),
               written |-> << BuildFrame(SET_POSITION, << position >>) >>,
               reply |-> << >>,
               outcome |-> ReturnedNone]
  /\ UNCHANGED << devVars, mgrVars, probe, am43, scan >>

CodecNext ==
  \/ SendCommand
  \/ ReadCommand
  \/ SetPosition

(***************************************************************************)
(* AM43Device.read_state                                                   *)
(***************************************************************************)
\* self.__state: None, or the AM43State built from three values; position
\* keeps its class default None when read_position returned None
NoState ==
  [isNone |-> TRUE, battery |-> 0, light |-> 0, posNone |-> TRUE, position |-> 0]

\* entity.AM43State(battery=..., light=..., position=...)
AM43State(battery, light, position) ==
  [isNone |-> FALSE, battery |-> battery.value, light |-> light.value,
   posNone |-> position.isNone, position |-> position.value]

\* a read_state that keeps the state it had
Kept(st) == st

\* "# Invalidate state": self.__state = None
Invalidated(st) == NoState

StateInit ==
  am43 = [state |-> NoState, pc |-> "idle", battery |-> NoOutcome,
          light |-> NoOutcome, trips |-> << >>, outs |-> << >>,
          reads |-> 0, last |-> "none", prev |-> NoState]

\* What a read command awaited by read_state can give: the decoding of a
\* reply of the blind (with the expected prefix or another, full or cut
\* short), or the failure of _send_char_command (no reply in time, or the
\* write raised)
StateReplies(cmd) ==
  {MkReply(p, n, v) : p \in {ReadPrefix(cmd), << 154, 0 >>},
                      n \in {3, MaxReplyLen}, v \in {10, 249}}

TripOutcomes(cmd) ==
  {Decode(cmd, d) : d \in StateReplies(cmd)}
    \cup {[NoOutcome EXCEPT !.kind = "Timeout"],
          [NoOutcome EXCEPT !.kind = "TransportError"]}

\* read_state up to its first await: the state is invalidated and
\* read_battery_status is awaited. One caller awaits each read_state before
\* it calls the next, as main() of test_entrypoint does
ReadState ==
  /\ am43.pc = "idle"
  /\ am43.reads < MaxReads
  /\ am43' = [am43 EXCEPT !.state = Invalidated(am43.state),
                          !.pc = "battery", !.battery = NoOutcome,
                          !.light = NoOutcome, !.trips = << >>,
                          !.outs = << >>, !.reads = am43.reads + 1,
                          !.last = "running", !.prev = am43.state]
  /\ UNCHANGED << devVars, mgrVars, probe, codec, scan >>

\* the exception of an awaited read command leaves read_state
Failed(cmd, out) ==
  [am43 EXCEPT !.pc = "idle", !.last = "failed",
               !.trips = Append(am43.trips, cmd),
               !.outs = Append(am43.outs, out.kind)]

\* "battery=await self.read_battery_status()" returns or raises; on return
\* read_light_status is awaited
BatteryTrip ==
  /\ am43.pc = "battery"
  /\ \E out \in TripOutcomes("read_battery_status") :
       am43' = IF out.kind = "ok"
               THEN [am43 EXCEPT !.pc = "light", !.battery = out,
                       !.trips = Append(am43.trips, "read_battery_status"),
                       !.outs = Append(am43.outs, out.kind)]
               ELSE Failed("read_battery_status", out)
  /\ UNCHANGED << devVars, mgrVars, probe, codec, scan >>

\* "light=await self.read_light_status()" returns or raises; on return
\* read_position is awaited
LightTrip ==
  /\ am43.pc = "light"
  /\ \E out \in TripOutcomes("read_light_status") :
       am43' = IF out.kind = "ok"
               THEN [am43 EXCEPT !.pc = "position", !.light = out,
                       !.trips = Append(am43.trips, "read_light_status"),
                       !.outs = Append(am43.outs, out.kind)]
               ELSE Failed("read_light_status", out)
  /\ UNCHANGED << devVars, mgrVars, probe, codec, scan >>

\* "position=await self.read_position()" returns or raises; on return the
\* AM43State is built, stored and returned
PositionTrip ==
  /\ am43.pc = "position"
  /\ \E out \in TripOutcomes("read_position") :
       am43' = IF out.kind = "ok"
               THEN [am43 EXCEPT !.pc = "idle", !.last = "ok",
                       !.state = AM43State(am43.battery, am43.light, out),
                       !.trips = Append(am43.trips, "read_position"),
                       !.outs = Append(am43.outs, out.kind)]
               ELSE Failed("read_position", out)
  /\ UNCHANGED << devVars, mgrVars, probe, codec, scan >>

StateNext ==
  \/ ReadState
  \/ BatteryTrip
  \/ LightTrip
  \/ PositionTrip

(***************************************************************************)
(* AM43DeviceManager.discover                                              *)
(***************************************************************************)
\* A name is the sequence of its characters, or None
\* AM43DeviceManager.DEVICE_NAME_PREFIXES = ["Blind"]
DEVICE_NAME_PREFIXES == << << "B", "l", "i", "n", "d" >> >>

NoName == [hasName |-> FALSE, chars |-> << >>]

\* The names the scanned devices advertise: "BlindMotor1", "Thermostat",
\* "Blinds-East", "Blind", "Blind 1 ", " Blind", "Blin", "blind", "xBlind",
\* the empty name and no name
AdvertisedNames ==
  {[hasName |-> TRUE, chars |-> << "B", "l", "i", "n", "d", "M", "o", "t", "o", "r", "1" >>],
   [hasName |-> TRUE, chars |-> << "T", "h", "e", "r", "m", "o", "s", "t", "a", "t" >>],
   [hasName |-> TRUE, chars |-> << "B", "l", "i", "n", "d", "s", "-", "E", "a", "s", "t" >>],
   [hasName |-> TRUE, chars |-> << "B", "l", "i", "n", "d" >>],
   [hasName |-> TRUE, chars |-> << "B", "l", "i", "n", "d", " ", "1", " " >>],
   [hasName |-> TRUE, chars |-> << " ", "B", "l", "i", "n", "d" >>],
   [hasName |-> TRUE, chars |-> << "B", "l", "i", "n" >>],
   [hasName |-> TRUE, chars |-> << "b", "l", "i", "n", "d" >>],
   [hasName |-> TRUE, chars |-> << "x", "B", "l", "i", "n", "d" >>],
   [hasName |-> TRUE, chars |-> << >>],
   NoName}

\* a test with the two strings swapped: prefix.startswith(name)
PrefixStartsWith(name, prefix) ==
  Len(prefix) >= Len(name) /\ SubSeq(prefix, 1, Len(name)) = name

\* Python's name.startswith(prefix)
StartsWith(name, prefix) ==
  Len(name) >= Len(prefix) /\ SubSeq(name, 1, Len(prefix)) = prefix

\* Python's filter(f, list) for the two filters of discover, from index i
RECURSIVE MatchingPrefixes(_, _)
MatchingPrefixes(name, i) ==
  IF i > Len(DEVICE_NAME_PREFIXES) THEN << >>
  ELSE IF StartsWith(name, DEVICE_NAME_PREFIXES[i])
  THEN << DEVICE_NAME_PREFIXES[i] >> \o MatchingPrefixes(name, i + 1)
  ELSE MatchingPrefixes(name, i + 1)

\* is_target_device: "dev.name and len(list(filter(dev.name.startswith,
\* cls.DEVICE_NAME_PREFIXES))) > 0"; None and "" are falsy
is_target_device(dev) ==
  /\ dev.name.hasName
  /\ dev.name.chars # << >>
  /\ Len(MatchingPrefixes(dev.name.chars, 1)) > 0

\* Python's str.strip() for the blank
RECURSIVE LStrip(_)
LStrip(cs) == IF cs # << >> /\ Head(cs) = " " THEN LStrip(Tail(cs)) ELSE cs

RECURSIVE RStrip(_)
RStrip(cs) ==
  IF cs # << >> /\ cs[Len(cs)] = " " THEN RStrip(SubSeq(cs, 1, Len(cs) - 1))
  ELSE cs

Strip(cs) == LStrip(RStrip(cs))

\* compose_device_name: the name as it is, stripped
compose_device_name(dev_name) == Strip(dev_name.chars)

\* BLEDeviceInfo(address=dev.address, bt_device_name=(dev.name or "").strip(),
\* name=self.compose_device_name(dev.name, dev), ...)
BLEDeviceInfo(dev) ==
  [address |-> dev.address,
   bt_device_name |-> Strip(dev.name.chars),
   name |-> compose_device_name(dev.name)]

\* list(map(BLEDeviceInfo, filter(self.is_target_device, discovered_devs))),
\* from index i
RECURSIVE Descriptors(_, _)
Descriptors(discovered_devs, i) ==
  IF i > Len(discovered_devs) THEN << >>
  ELSE IF is_target_device(discovered_devs[i])
  THEN << BLEDeviceInfo(discovered_devs[i]) >> \o Descriptors(discovered_devs, i + 1)
  ELSE Descriptors(discovered_devs, i + 1)

ScanInit == scan = [pc |-> "idle", discovered_devs |-> << >>, result |-> << >>]

\* discover is called: inside the manager's lock "await bleak.discover(timeout)"
\* starts scanning
DiscoverCall ==
  /\ scan.pc = "idle"
  /\ scan' = [scan EXCEPT !.pc = "scanning"]
  /\ UNCHANGED << devVars, mgrVars, probe, codec, am43 >>

\* the running scan finds one more device, with any of the advertised names;
\* the i-th device found has address i
DeviceFound ==
  /\ scan.pc = "scanning"
  /\ Len(scan.discovered_devs) < MaxScan
  /\ \E n \in AdvertisedNames :
       scan' = [scan EXCEPT !.discovered_devs =
                  Append(@, [address |-> Len(scan.discovered_devs) + 1, name |-> n])]
  /\ UNCHANGED << devVars, mgrVars, probe, codec, am43 >>

\* the awaited bleak.discover returns the devices found
ScanReturn ==
  /\ scan.pc = "scanning"
  /\ scan' = [scan EXCEPT !.pc = "scanned"]
  /\ UNCHANGED << devVars, mgrVars, probe, codec, am43 >>

\* discover returns the descriptors of the target devices
DiscoverReturn ==
  /\ scan.pc = "scanned"
  /\ scan' = [scan EXCEPT !.pc = "returned",
                          !.result = Descriptors(scan.discovered_devs, 1)]
  /\ UNCHANGED << devVars, mgrVars, probe, codec, am43 >>

DiscoverNext ==
  \/ DiscoverCall
  \/ DeviceFound
  \/ ScanReturn
  \/ DiscoverReturn

(***************************************************************************)
(* Specifications                                                          *)
(***************************************************************************)
AuxInit == ProbeInit /\ CodecInit /\ StateInit /\ ScanInit

Init == DevInit /\ MgrInit /\ AuxInit

Next == DevNext

Spec == Init /\ [][Next]_vars

\* The event loop runs its timers and wakes a task whose event is set
FairSpec ==
  /\ Spec
  /\ \A t \in Tasks : WF_vars(Tick(t)) /\ WF_vars(Timeout(t)) /\ WF_vars(Resume(t))

\* The manager and its Devices, driven by the callers
MgrSpec == Init /\ [][MgrNext]_vars

\* The manager driven by callers whose calls overlap
MgrConcSpec == Init /\ [][MgrConcNext]_vars

\* One device whose tasks connect, disconnect and ask is_connected
ConnSpec == Init /\ [][ConnNext]_vars

\* One AM43Device command on every opcode, payload, reply and position
CodecSpec == Init /\ [][CodecNext]_vars

\* One AM43Device whose state is read again and again
StateSpec == Init /\ [][StateNext]_vars

\* One AM43DeviceManager.discover on the devices a scan finds
DiscoverSpec == Init /\ [][DiscoverNext]_vars

(***************************************************************************)
(* Claims about the device's lock and the correlator                       *)
(***************************************************************************)
\* task t is inside an "async with self._lock" block
InBody(t) ==
  pc[t] \in {"locked", "connecting", "setup", "disconnecting",
             "writing", "written", "waiting"}

\* the frame write of task t's command has begun (or is over) and the
\* command has not completed
InFlight(t) == pc[t] \in {"writing", "written", "waiting"}

\* the body of task t's operation has run (or is running)
BodyRan(t) ==
  \/ pc[t] \in {"connecting", "setup", "disconnecting", "writing", "written", "waiting"}
  \/ (pc[t] = "idle" /\ result[t].kind # "pending")

WriteInvoked(c) == \E i \in 1 .. Len(writes) : writes[i] = c

\* C1: connect, disconnect and sendCommand never overlap on one device: at
\* most one task is inside a lock-guarded block, it holds the lock, and while
\* a command's frame write or reply wait is in progress every operation that
\* was issued before it has already returned or failed.
C1_SingleFlight ==
  \A t \in Tasks :
    /\ InBody(t) => lock = t
    /\ \A u \in Tasks :
         /\ (InBody(t) /\ InBody(u)) => t = u
         /\ (t # u /\ InFlight(u) /\ cid[t] > 0 /\ cid[t] < cid[u])
              => (pc[t] = "idle" /\ result[t].kind # "pending")

\* C1 witness: a command waits for its reply while a second command, issued
\* concurrently, is queued on the lock
C1_Witness ==
  \E t \in Tasks, u \in Tasks :
    /\ t # u
    /\ IsCommand(op[t]) /\ IsCommand(op[u])
    /\ pc[t] = "waiting"
    /\ pc[u] = "lockwait"

\* C2: a command whose body runs while the device is not Connected fails with
\* NotConnected and write_gatt_char is not invoked for it.
C2_NotConnectedBeforeWrite ==
  \A t \in Tasks :
    (IsCommand(op[t]) /\ BodyRan(t) /\ ~connAtStart[t])
      => (~WriteInvoked(cid[t]) /\ result[t].kind = "NotConnected")

\* C3: a reply wait that receives no notification ends by the timeout: the
\* time waited never exceeds the timeout, the wait ends with a Timeout error
\* carrying no data and with the lock released, and it always ends.
C3_TimeoutEndsWait ==
  /\ [](\A t \in Tasks : pc[t] = "waiting" => elapsed <= ReplyTimeout)
  /\ [][\A t \in Tasks :
          (pc[t] = "waiting" /\ pc'[t] # "waiting" /\ ~read_state_event)
            => /\ result'[t] = [kind |-> "Timeout", data |-> NoBytes]
               /\ pc'[t] = "idle"
               /\ lock' # t]_vars
  /\ (\E t \in Tasks : pc[t] = "waiting") ~> (\A t \in Tasks : pc[t] # "waiting")

\* C3 witness: a command has timed out and a later command of the other task
\* holds the lock and writes its frame
C3_Witness ==
  \E t \in Tasks, u \in Tasks :
    /\ t # u
    /\ result[t].kind = "Timeout" /\ pc[t] = "idle"
    /\ cid[u] > cid[t]
    /\ pc[u] = "writing" /\ lock = u

\* C4: the bytes a command returns were all sent by the device in reply to
\* that command.
C4_OnlyOwnReply ==
  \A t \in Tasks :
    (IsCommand(op[t]) /\ result[t].kind = "ok")
      => \A i \in 1 .. Len(result[t].data.frags) : result[t].data.frags[i] = cid[t]

(***************************************************************************)
(* Claims about BLEDiscoveryManager.connect and disconnect_all             *)
(***************************************************************************)
\* caller c's connect call has ended with an exception
ConnectFailed(c) ==
  /\ call[c].op = "connect" /\ call[c].pc = "idle"
  /\ call[c].result.kind \notin {"pending", "ok"}

\* caller c's connect call has returned a device
ConnectReturned(c) ==
  /\ call[c].op = "connect" /\ call[c].pc = "idle"
  /\ call[c].result.kind = "ok"

\* every transport connect of caller c's call has failed so far
TransportAlwaysFailed(c) == call[c].tsucc = 0

\* the device the registry holds for address a, 0 when there is none
Registered(a) ==
  IF \E i \in 1 .. Len(managed_devices) : managed_devices[i].addr = a
  THEN LET i == CHOOSE k \in 1 .. Len(managed_devices) : managed_devices[k].addr = a
       IN managed_devices[i].dev
  ELSE 0

\* C5: connect(attempts=N) never makes more than N attempts; when every
\* transport connect fails the call fails after exactly N transport connects,
\* and when an attempt succeeds the device is returned at once, that attempt
\* being the last one made.
C5_ExactlyNAttempts ==
  \A c \in Callers :
    /\ call[c].op = "connect"
         => /\ call[c].tries <= call[c].attempts
            /\ call[c].tconnects <= call[c].tries
    /\ (ConnectFailed(c) /\ TransportAlwaysFailed(c))
         => /\ call[c].tconnects = call[c].attempts
            /\ call[c].tries = call[c].attempts
    /\ ConnectReturned(c)
         => /\ call[c].result.device = call[c].device
            /\ call[c].tries = (call[c].attempts - call[c].attempts_left) + 1

\* C5 witness: a connect with attempts = 2 has failed after two failed
\* transport connects
C5_Witness ==
  \E c \in Callers :
    /\ ConnectFailed(c) /\ TransportAlwaysFailed(c)
    /\ call[c].attempts = 2 /\ call[c].tconnects = 2

\* C6: when all N attempts fail, exactly N-1 backoff sleeps were performed.
C6_SleepsBetweenAttemptsOnly ==
  \A c \in Callers :
    (ConnectFailed(c) /\ TransportAlwaysFailed(c))
      => call[c].sleeps = call[c].attempts - 1

\* C7 as claimed: when all N attempts fail, the call raises ConnectionFailed
\* naming the address and the attempt count, for every N >= 1.
C7_AlwaysConnectionFailed ==
  \A c \in Callers :
    ConnectFailed(c)
      => call[c].result = [kind |-> "ConnectionFailed", address |-> call[c].target,
                           attempts |-> call[c].attempts, device |-> 0]

\* C7 as amended: when all N attempts fail, the call raises ConnectionFailed
\* naming the address and the attempt count for N >= 2, and for N = 1 the
\* error of the single failed attempt is raised unchanged.
C7_ConnectionFailedFromTwoAttempts ==
  \A c \in Callers :
    ConnectFailed(c)
      => IF call[c].attempts >= 2
         THEN /\ call[c].result = [kind |-> "ConnectionFailed",
                                   address |-> call[c].target,
                                   attempts |-> call[c].attempts, device |-> 0]
              /\ call[c].tries = call[c].attempts
         ELSE /\ call[c].result.kind \in {"TransportError", "SetupError"}
              /\ call[c].tries = 1

\* C7 witness: a connect with attempts = 2 has failed with ConnectionFailed
C7_Witness ==
  \E c \in Callers :
    /\ ConnectFailed(c)
    /\ call[c].attempts = 2
    /\ call[c].result.kind = "ConnectionFailed"

\* C8 as claimed: build_new_device is never invoked a second time for an
\* address, whatever connect and disconnect_all calls were made.
C8_OneBuildPerAddress == \A a \in Addrs : builds[a] <= 1

\* C8 as amended: the registry holds at most one Device per address, a
\* connect that finds its address registered uses the registered Device and
\* builds nothing, and build_new_device is invoked (again) for an address only
\* while the registry holds no Device for it, as after disconnect_all.
C8_BuildOnlyWhenUnregistered ==
  /\ [](\A i \in 1 .. Len(managed_devices), j \in 1 .. Len(managed_devices) :
          managed_devices[i].addr = managed_devices[j].addr => i = j)
  /\ [](\A c \in Callers :
          (ConnectReturned(c) /\ call[c].found # 0)
            => (call[c].result.device = call[c].found /\ ~call[c].built))
  /\ [][\A a \in Addrs : builds'[a] # builds[a] => Registered(a) = 0]_vars
  /\ [][\A c \in Callers :
          (call[c].pc = "idle" /\ call'[c].pc # "idle" /\ call'[c].op = "connect"
             /\ Registered(call'[c].target) # 0)
            => /\ call'[c].device = Registered(call'[c].target)
               /\ managed_devices' = managed_devices
               /\ nDevices' = nDevices]_vars

\* C8 witness: an address is connected again after disconnect_all removed it:
\* a second Device was built for it, and the registry holds that one
C8_Witness ==
  \E a \in Addrs : builds[a] = 2 /\ Registered(a) = 2

\* the devices of the items disconnect_all copied
SnapshotDevices(c) ==
  {call[c].snapshot[i].dev : i \in 1 .. Len(call[c].snapshot)}

\* C9: disconnect_all never raises and never stops early: it has attempted
\* the disconnect of every item before the one it is at, and when it returns
\* it has attempted every item it copied, the ones after a failed disconnect
\* included.
C9_DisconnectAllCompletes ==
  \A c \in Callers :
    call[c].op = "disconnect_all"
      => /\ call[c].result.kind \in {"pending", "ok"}
         /\ call[c].idx <= Len(call[c].snapshot) + 1
         /\ \A i \in 1 .. Len(call[c].snapshot) :
              i < call[c].idx => call[c].snapshot[i].dev \in call[c].attempted
         /\ call[c].pc = "idle"
              => /\ call[c].result.kind = "ok"
                 /\ call[c].attempted = SnapshotDevices(c)

\* C9 witness: disconnect_all has returned after the disconnect of its first
\* item failed and the disconnect of its second item was attempted
C9_Witness ==
  \E c \in Callers :
    /\ call[c].op = "disconnect_all" /\ call[c].pc = "idle"
    /\ Len(call[c].snapshot) = 2
    /\ call[c].snapshot[1].dev \in call[c].failed
    /\ call[c].snapshot[2].dev \in call[c].attempted

\* C10: after disconnect_all returns, the registry holds none of the devices
\* that were managed when it started.
C10_AllRemoved ==
  \A c \in Callers :
    (call[c].op = "disconnect_all" /\ call[c].pc = "idle")
      => \A a \in Addrs : Registered(a) \notin SnapshotDevices(c)

(***************************************************************************)
(* Claims about the connection state of a device                           *)
(***************************************************************************)
\* C11: BLEDevice.is_connected never raises; when the transport's check
\* throws it returns False; once a transport connect has succeeded (the only
\* way the session comes up) every call asks the transport, and without a
\* throw returns what the session is now, so a session that dropped silently
\* is reported as False
C11_IsConnectedNeverRaises ==
  /\ linkUp => has_connect_attempts
  /\ probe.calls > 0 =>
       /\ ~probe.raised
       /\ probe.threw => ~probe.answer
       /\ probe.had => probe.asked
       /\ (probe.had /\ ~probe.threw) => (probe.answer = probe.up)
       /\ ~probe.up => ~probe.answer

\* is_connected answered True, the session dropped, and the next call asked
\* the transport and answered False
C11_Witness ==
  /\ probe.calls >= 2
  /\ probe.before
  /\ probe.had /\ probe.asked /\ ~probe.threw
  /\ ~probe.up /\ ~probe.answer

(***************************************************************************)
(* Claims about the commands of AM43Device                                 *)
(***************************************************************************)
\* C12: a movement command (open, close, stop) expects no reply: issued on a
\* connected device it writes its frame and returns without waiting for a
\* notification, so it never fails with Timeout
C12_MovementNeverTimesOut ==
  \A t \in Tasks :
    (op[t] = "open" /\ connAtStart[t]) => result[t].kind # "Timeout"

\* bit k of byte x, and the number of bytes among the first i of f that have
\* bit k set
BitOf(x, k) == (x \div (2 ^ k)) % 2

RECURSIVE OnesAt(_, _, _)
OnesAt(f, k, i) == IF i = 0 THEN 0 ELSE BitOf(f[i], k) + OnesAt(f, k, i - 1)

\* the call handed a frame to the transport
WroteFrame == codec.op # "none" /\ codec.written # << >>

\* C13: every frame written is the prefix 00 FF 00 00 9A, the opcode, the
\* payload length, the payload and one trailer byte; the trailer is the XOR
\* of the bytes before it XORed with 0xFF (each of its bits is the inverted
\* parity of that bit in the bytes before it), so the XOR of the whole frame
\* is 0xFF (each bit is set in an odd number of bytes); the battery request
\* is 00 FF 00 00 9A A2 01 01 38
C13_FrameLayout ==
  WroteFrame =>
    LET f == codec.written[1]
        n == Len(codec.payload)
    IN /\ Len(codec.written) = 1
       /\ Len(f) = n + 8
       /\ SubSeq(f, 1, 5) = << 0, 255, 0, 0, 154 >>
       /\ f[6] = codec.opcode
       /\ f[7] = n
       /\ SubSeq(f, 8, n + 7) = codec.payload
       /\ f[n + 8] \in Byte
       /\ \A k \in 0 .. 7 : BitOf(f[n + 8], k) = 1 - (OnesAt(f, k, n + 7) % 2)
       /\ \A k \in 0 .. 7 : OnesAt(f, k, n + 8) % 2 = 1
       /\ (codec.opcode = 162 /\ codec.payload = << 1 >>) =>
            f = << 0, 255, 0, 0, 154, 162, 1, 1, 56 >>

\* read_battery_status wrote the battery request 00 FF 00 00 9A A2 01 01 38
C13_Witness ==
  /\ codec.op = "read_battery_status"
  /\ codec.written = << << 0, 255, 0, 0, 154, 162, 1, 1, 56 >> >>

\* the two bytes the reply to the read command of the call has to begin
\* with: battery 9A A2, light 9A AA, position 9A A7
PrefixOfCall ==
  CASE codec.op = "read_battery_status" -> << 154, 162 >>
    [] codec.op = "read_light_status" -> << 154, 170 >>
    [] codec.op = "read_position" -> << 154, 167 >>

\* the reply begins with these two bytes
ExpectedPrefixReceived ==
  /\ Len(codec.reply) >= 2
  /\ SubSeq(codec.reply, 1, 2) = PrefixOfCall

\* C14: a read command returns a value only for a reply whose first two
\* bytes are its prefix (battery 9A A2, light 9A AA, position 9A A7); on any
\* other reply it raises the protocol error (ValueError) carrying the bytes
\* received and the prefix expected, and returns nothing
C14_PrefixChecked ==
  codec.op \in ReadCommands =>
    /\ codec.outcome.kind = "ok" => ExpectedPrefixReceived
    /\ ~ExpectedPrefixReceived =>
         /\ codec.outcome.kind = "ValueError"
         /\ codec.outcome.received = codec.reply
         /\ codec.outcome.expected = PrefixOfCall
         /\ codec.outcome.isNone /\ codec.outcome.value = 0

\* read_battery_status got a full-length reply with the prefix of the
\* position reply and raised
C14_Witness ==
  /\ codec.op = "read_battery_status"
  /\ Len(codec.reply) >= 8
  /\ SubSeq(codec.reply, 1, 2) = << 154, 167 >>
  /\ codec.outcome.kind = "ValueError"
  /\ codec.outcome.expected = << 154, 162 >>

\* C15: on a valid position reply (prefix 9A A7, byte 5 present)
\* read_position returns None exactly when byte 5 is 255, returns byte 5
\* itself for every value 0..100, and never returns the number 255
C15_UnknownPosition ==
  (codec.op = "read_position" /\ ExpectedPrefixReceived /\ Len(codec.reply) >= 6) =>
    /\ codec.outcome.kind = "ok"
    /\ codec.outcome.isNone <=> codec.reply[6] = 255
    /\ codec.reply[6] \in 0 .. 100 =>
         ~codec.outcome.isNone /\ codec.outcome.value = codec.reply[6]
    /\ ~(~codec.outcome.isNone /\ codec.outcome.value = 255)

\* read_position got a valid reply whose byte 5 is 255 and returned None
C15_Witness ==
  /\ codec.op = "read_position"
  /\ ExpectedPrefixReceived
  /\ Len(codec.reply) >= 6
  /\ codec.reply[6] = 255
  /\ codec.outcome.kind = "ok" /\ codec.outcome.isNone

\* C16: set_position with a position outside 0..100, above 100 or negative,
\* raises ValueError with no frame built and nothing written; with a
\* position in 0..100 it writes exactly one frame, of opcode 0x0D, length 1
\* and payload [position]
C16_SetPositionValidated ==
  codec.op = "set_position" =>
    IF codec.position \in 0 .. 100
    THEN /\ Len(codec.written) = 1
         /\ Len(codec.written[1]) = 9
         /\ SubSeq(codec.written[1], 6, 8) = << 13, 1, codec.position >>
         /\ codec.outcome.kind = "ok"
    ELSE /\ codec.outcome.kind = "ValueError"
         /\ codec.frame = << >>
         /\ codec.written = << >>

\* set_position was given a negative position and raised, nothing written
C16_Witness ==
  /\ codec.op = "set_position"
  /\ codec.position < 0
  /\ codec.outcome.kind = "ValueError"
  /\ codec.written = << >>

(***************************************************************************)
(* Claims about AM43Device.read_state                                      *)
(***************************************************************************)
\* the round trips of read_state, in their order
TripOrder == << "read_battery_status", "read_light_status", "read_position" >>

\* C17: read_state makes the battery, light and position round trips in that
\* order; it succeeds only when all three succeeded, and fails as soon as one
\* fails; while it runs and after it failed the stored state is the
\* invalidated value (None), never the state of an earlier read nor a partly
\* filled one; after it succeeded the stored state holds the three values
\* read in this call
C17_ReadStateAllOrNothing ==
  /\ am43.trips = SubSeq(TripOrder, 1, Len(am43.trips))
  /\ am43.last \in {"running", "failed"} => am43.state = NoState
  /\ am43.last = "failed" <=>
       (am43.outs # << >> /\ am43.outs[Len(am43.outs)] # "ok")
  /\ am43.last = "ok" <=> am43.outs = << "ok", "ok", "ok" >>
  /\ am43.last = "ok" =>
       /\ ~am43.state.isNone
       /\ am43.state.battery = am43.battery.value
       /\ am43.state.light = am43.light.value
  /\ \A i \in 1 .. Len(am43.outs) - 1 : am43.outs[i] = "ok"

\* a read_state succeeded, and the next one failed at its third round trip
\* and left the invalidated state
C17_Witness ==
  /\ am43.reads = 2
  /\ ~am43.prev.isNone
  /\ am43.last = "failed"
  /\ Len(am43.trips) = 3
  /\ am43.state = NoState

(***************************************************************************)
(* Claims about AM43DeviceManager.discover                                 *)
(***************************************************************************)
\* the scanned device i advertises a non-empty name that begins with "Blind"
NamedBlind(i) ==
  LET n == scan.discovered_devs[i].name
  IN /\ n.hasName
     /\ Len(n.chars) >= 5
     /\ n.chars[1] = "B" /\ n.chars[2] = "l" /\ n.chars[3] = "i"
     /\ n.chars[4] = "n" /\ n.chars[5] = "d"

\* C18: discover returns one descriptor for each scanned device whose name
\* is non-empty and starts with the prefix "Blind", and for no other device
\* (none with another name, an empty name or no name), in the order of the
\* scan (the i-th scanned device has address i)
C18_DiscoverFilters ==
  scan.pc = "returned" =>
    /\ {scan.result[k].address : k \in 1 .. Len(scan.result)}
         = {i \in 1 .. Len(scan.discovered_devs) : NamedBlind(i)}
    /\ \A k \in 1 .. Len(scan.result) - 1 :
         scan.result[k].address < scan.result[k + 1].address

\* the scan found "BlindMotor1", "Thermostat", "Blinds-East" and discover
\* returned the first and the third
C18_Witness ==
  /\ scan.pc = "returned"
  /\ Len(scan.discovered_devs) = 3
  /\ scan.discovered_devs[1].name.chars =
       << "B", "l", "i", "n", "d", "M", "o", "t", "o", "r", "1" >>
  /\ scan.discovered_devs[2].name.chars =
       << "T", "h", "e", "r", "m", "o", "s", "t", "a", "t" >>
  /\ scan.discovered_devs[3].name.chars =
       << "B", "l", "i", "n", "d", "s", "-", "E", "a", "s", "t" >>
  /\ Len(scan.result) = 2
  /\ scan.result[1].address = 1 /\ scan.result[2].address = 3

(***************************************************************************)
(* Claims about connecting and disconnecting a device                      *)
(***************************************************************************)
\* C19: a connect returns successfully only with the post-connect setup
\* completed for the current transport session: whenever a call of
\* BLEDiscoveryManager.connect returns a device, the notification
\* subscription of that device is in place; a setup that failed leaves the
\* device disconnected, so the next attempt runs the setup again
C19_ConnectedOnlyAfterSetup ==
  [][\A c \in Callers :
       (call[c].pc # "idle" /\ ConnectReturned(c)') =>
         devices'[call'[c].result.device].subscribed]_vars

\* C20: BLEDevice.disconnect calls the transport disconnect only when the
\* device is connected, and a failure of the transport disconnect is caught
\* inside disconnect: the call never ends with the transport's error
C20_DisconnectFailureCaught ==
  \A t \in Tasks :
    op[t] = "disconnect" =>
      /\ pc[t] = "disconnecting" => connAtStart[t]
      /\ result[t].kind # "TransportError"

(***************************************************************************)
(* Claims about overlapping calls and about the reply buffer               *)
(***************************************************************************)
\* C21: BLEDiscoveryManager.connect looks up, builds and registers the
\* Device under the manager's lock: two overlapping connect calls for the
\* same unregistered address are never both inside build_new_device, so they
\* cannot both build a Device
C21_RegistrySerialized ==
  \A c1, c2 \in Callers :
    (c1 # c2 /\ call[c1].target = call[c2].target) =>
      ~(call[c1].pc = "building" /\ call[c2].pc = "building")

\* a command of some task starts: it leaves the lock's entry for the write
CommandStarts == \E t \in Tasks : pc[t] = "locked" /\ pc'[t] = "writing"

\* the fragment the device sent in reply to command c arrives
Arrives(c) == c \in air /\ air' = air \ {c} /\ linkUp' = linkUp

\* C22: the reply buffer is cleared at the start of every command; from then
\* on it changes only by a fragment arriving, which is put behind the
\* fragments already there (and every arriving fragment is put there); and a
\* command that returns successfully returns the whole buffer as it is when
\* the waiter resumes. So the bytes returned are the fragments received
\* between the clear and the resumption, in arrival order, and nothing
\* received before the clear
C22_BufferClearedAndConcatenated ==
  /\ [][CommandStarts => notification_bytes' = NoBytes]_vars
  /\ [][\A c \in 1 .. MaxOps :
          Arrives(c) =>
            /\ ~notification_bytes'.isNone
            /\ notification_bytes'.frags = Append(notification_bytes.frags, c)]_vars
  /\ [][notification_bytes' # notification_bytes =>
          (CommandStarts \/ \E c \in 1 .. MaxOps : Arrives(c))]_vars
  /\ [][\A t \in Tasks :
          (pc[t] = "waiting" /\ result'[t].kind = "ok") =>
            result'[t].data = notification_bytes]_vars

\* a command returned two fragments, in the order they arrived: the late
\* reply to an earlier command and then its own reply
C22_Witness ==
  \E t \in Tasks :
    /\ IsCommand(op[t]) /\ pc[t] = "idle"
    /\ result[t].kind = "ok"
    /\ Len(result[t].data.frags) = 2
    /\ result[t].data.frags[2] = cid[t]

\* the number of bytes a reply needs for the field of the read command of
\* the call: battery reads byte 7, light byte 4, position byte 5 (from 0)
BytesNeeded ==
  CASE codec.op = "read_battery_status" -> 8
    [] codec.op = "read_light_status" -> 5
    [] codec.op = "read_position" -> 6

\* C23: a reply that carries the expected two-byte prefix but ends before
\* the field's byte makes the read command fail with the protocol error
\* (ValueError), not with another error and not with a value
C23_ShortReplyIsProtocolError ==
  (codec.op \in ReadCommands /\ ExpectedPrefixReceived
     /\ Len(codec.reply) < BytesNeeded) =>
    codec.outcome.kind = "ValueError"

\* the reply to command c is in the reply buffer
InBuffer(c) ==
  \E i \in 1 .. Len(notification_bytes.frags) : notification_bytes.frags[i] = c

\* C24: a reply that arrives after its command cleared the buffer and before
\* the timeout elapses is returned, whenever it arrives, also while the write
\* of the frame is still suspended: a command never ends with Timeout while
\* its own reply is in the buffer
C24_NoReplyLost ==
  [][\A t \in Tasks :
       (pc[t] = "waiting" /\ result'[t].kind = "Timeout") =>
         ~InBuffer(cid[t])]_vars

====
